---- MODULE Spec2Model ----
(***************************************************************************)
(* Region matcher, search engine, price predictor and data loader of the   *)
(* smartfarm_region_price package, as a state machine.                     *)
(*                                                                         *)
(* Conventions                                                             *)
(*   - a nullable value (None / NaN) is an option: <<>> is the null,       *)
(*     <<v>> is the value v;                                               *)
(*   - a text is a sequence of one-character strings, so that strip() and  *)
(*     str.contains() are computed rather than assumed;                    *)
(*   - a table (DataFrame) is the sequence of its rows, a row is a record; *)
(*   - the ratio columns hold fixed-point numbers; the values used are     *)
(*     such that (2b + g) / 2 is exact, as the float division by 2 is.     *)
(*   Columns: code = 법정동코드, crop = 작물이름, best = 면적당 최적지,    *)
(*   good = 면적당 적지, score = 최적지_점수, link_adm = 행정동코드,       *)
(*   link_code = 연계_법정동코드.                                          *)
(***************************************************************************)
EXTENDS Integers, Sequences, FiniteSets, TLC

VARIABLES
    fs,             \* the files on disk (environment)
    constructed,    \* which object the program constructed
    gdf,            \* CropRegionVisualizer.gdf
    soil_data,      \* CropRegionVisualizer.soil_data
    link_table,     \* CropRegionVisualizer.link_table
    merged_data,    \* CropRegionVisualizer.merged_data
    results,        \* CropPricePredictor.results
    trained_models, \* CropPricePredictor.trained_models
    sort_ties,      \* how the installed numpy orders rows of equal sort key
    result          \* the last call: its name, arguments and outcome

vars == <<fs, constructed, sort_ties, gdf, soil_data, link_table, merged_data,
          results, trained_models, result>>

vizVars == <<gdf, soil_data, link_table, merged_data>>
predVars == <<results, trained_models>>

-----------------------------------------------------------------------------
(* Values *)

None == <<>>
Some(v) == <<v>>
IsNone(o) == o = <<>>
Val(o) == o[1]

\* the members of a set of integers, ascending
RECURSIVE Ascending(_)
Ascending(S) ==
    IF S = {} THEN <<>>
    ELSE LET m == CHOOSE x \in S : \A y \in S : x <= y
         IN <<m>> \o Ascending(S \ {m})

\* the positions 1..n kept by a predicate, in order
SelectIdx(n, Keep(_)) == Ascending({i \in 1..n : Keep(i)})

RECURSIVE Concat(_)
Concat(ss) == IF ss = <<>> THEN <<>> ELSE Head(ss) \o Concat(Tail(ss))

\* concatenation of the sequences F(1) .. F(n)
FlatMap(n, F(_)) == Concat([i \in 1..n |-> F(i)])

Rows(t, idx) == [k \in 1..Len(idx) |-> t[idx[k]]]

-----------------------------------------------------------------------------
(* Code normalisation: Series.astype(str).str.strip() *)

Whitespace == {" "}

\* str(x) of a cell: a text cell is itself, an integer cell is its digits,
\* a missing cell (NaN) is the text "nan"
AsStr(cell) ==
    IF cell.t = "nan" THEN <<"n", "a", "n">> ELSE cell.s

RECURSIVE LStrip(_)
LStrip(s) ==
    IF s # <<>> /\ Head(s) \in Whitespace THEN LStrip(Tail(s)) ELSE s

RECURSIVE RStrip(_)
RStrip(s) ==
    IF s # <<>> /\ s[Len(s)] \in Whitespace
    THEN RStrip(SubSeq(s, 1, Len(s) - 1)) ELSE s

Strip(s) == RStrip(LStrip(s))

NormalizeCode(cell) == Strip(AsStr(cell))

\* read_csv gives a column of integers with a missing cell the dtype
\* float64, and str() of the float 1.0 is "1.0"
FloatColumn(cells) ==
    /\ \E c \in cells : c.t = "nan"
    /\ \A c \in cells : c.t \in {"int", "nan"}

AsStrIn(cells, cell) ==
    IF cell.t = "int" /\ FloatColumn(cells)
    THEN cell.s \o <<".", "0">>
    ELSE AsStr(cell)

\* column.astype(str).str.strip() of one cell of a column read by read_csv
NormalizeCodeIn(cells, cell) == Strip(AsStrIn(cells, cell))

-----------------------------------------------------------------------------
(* _merge_with_link_table / _merge_direct / _calculate_score *)

\* link_table[link_cols].drop_duplicates(): first occurrence of each pair
DropDuplicateLinks(lt) ==
    Rows(lt, SelectIdx(Len(lt),
        LAMBDA i : \A j \in 1..(i - 1) :
            ~(lt[j].link_adm = lt[i].link_adm /\ lt[j].link_code = lt[i].link_code)))

\* pd.merge(gdf, links, left_on="adm_cd2", right_on=행정동코드, how="left"):
\* left order kept, the matches of a row in right order, an unmatched row
\* kept once with null link columns
LeftJoinLink(g, lt) ==
    FlatMap(Len(g), LAMBDA i :
        LET m == SelectIdx(Len(lt), LAMBDA j : lt[j].link_adm = g[i].adm_cd2)
        IN IF m = <<>>
           THEN << [adm_cd2 |-> g[i].adm_cd2, sidonm |-> g[i].sidonm,
                    adm_nm |-> g[i].adm_nm,
                    link_adm |-> None, link_code |-> None] >>
           ELSE [k \in 1..Len(m) |->
                   [adm_cd2 |-> g[i].adm_cd2, sidonm |-> g[i].sidonm,
                    adm_nm |-> g[i].adm_nm,
                    link_adm |-> Some(lt[m[k]].link_adm),
                    link_code |-> Some(lt[m[k]].link_code)]])

MergedRow(l, s) ==
    [adm_cd2 |-> l.adm_cd2, sidonm |-> l.sidonm, adm_nm |-> l.adm_nm,
     link_adm |-> l.link_adm, link_code |-> l.link_code,
     code |-> s.code, crop |-> s.crop, best |-> s.best, good |-> s.good,
     score |-> None]

\* pd.merge(left, soil, left_on=key, right_on=법정동코드, how="inner"); a null
\* key matches no soil code, which is always a string after astype(str)
InnerJoinSoil(left, Key(_), soil) ==
    FlatMap(Len(left), LAMBDA i :
        LET m == SelectIdx(Len(soil),
                    LAMBDA j : Key(left[i]) = Some(soil[j].code))
        IN [k \in 1..Len(m) |-> MergedRow(left[i], soil[m[k]])])

_merge_with_link_table(g, lt, soil) ==
    InnerJoinSoil(LeftJoinLink(g, DropDuplicateLinks(lt)),
                  LAMBDA l : l.link_code, soil)

\* a join that pairs every boundary record with every soil row
CrossJoinDirect(g, soil) ==
    FlatMap(Len(g), LAMBDA i :
        [k \in 1..Len(soil) |->
            MergedRow([adm_cd2 |-> g[i].adm_cd2, sidonm |-> g[i].sidonm,
                       adm_nm |-> g[i].adm_nm,
                       link_adm |-> None, link_code |-> None], soil[k])])

_merge_direct(g, soil) ==
    InnerJoinSoil([i \in 1..Len(g) |->
                     [adm_cd2 |-> g[i].adm_cd2, sidonm |-> g[i].sidonm,
                      adm_nm |-> g[i].adm_nm,
                      link_adm |-> None, link_code |-> None]],
                  LAMBDA l : Some(l.adm_cd2), soil)

\* the weights of the two ratios exchanged: (best + good * 2) / 2
GoodWeightedScore(best, good) ==
    IF IsNone(best) \/ IsNone(good) THEN None
    ELSE Some((Val(best) + Val(good) * 2) \div 2)

\* (best * 2 + good) / 2, NaN when either ratio is NaN
ScoreOf(best, good) ==
    IF IsNone(best) \/ IsNone(good) THEN None
    ELSE Some((Val(best) * 2 + Val(good)) \div 2)

\* the score column is added only when both ratio columns exist
_calculate_score(has_ratio, rows) ==
    [has_score |-> has_ratio,
     rows |-> IF has_ratio
              THEN [i \in 1..Len(rows) |->
                      [rows[i] EXCEPT !.score = ScoreOf(rows[i].best, rows[i].good)]]
              ELSE rows]

-----------------------------------------------------------------------------
(* The files on disk *)

MaxGeo == 2
MaxSoil == 2
MaxSoilNoRatio == 1
MaxLink == 2

Txt(s) == [t |-> "str", s |-> s]
Num(s) == [t |-> "int", s |-> s]
NaNCell == [t |-> "nan", s |-> <<>>]

\* every table of at most n rows over a set of records
SeqsUpTo(R, n) == UNION {[1..k -> R] : k \in 0..n}

\* features of the boundary file (GeoJSON properties are texts)
BoundaryRecords ==
    { [adm_cd2 |-> Txt(<<"1">>), sidonm |-> "P", adm_nm |-> Some(<<"a", "b">>)],
      [adm_cd2 |-> Txt(<<"2", " ">>), sidonm |-> "P", adm_nm |-> Some(<<"b">>)],
      [adm_cd2 |-> Txt(<<"2">>), sidonm |-> "Q", adm_nm |-> None] }

\* rows of the soil file (the code column is read as a number)
SoilRecords ==
    { [code |-> Num(<<"1">>), crop |-> Some("apple"), best |-> Some(0), good |-> Some(2)],
      [code |-> Num(<<"2">>), crop |-> Some("apple"), best |-> Some(2), good |-> Some(0)],
      [code |-> Num(<<"2">>), crop |-> Some("apple"), best |-> None, good |-> Some(2)],
      [code |-> Num(<<"1">>), crop |-> Some("baechu"), best |-> Some(2), good |-> Some(2)],
      [code |-> Num(<<"2">>), crop |-> None, best |-> Some(0), good |-> Some(2)] }

\* rows of the translation file: 행정동코드, 법정동코드
LinkRecords ==
    { [link_adm |-> Num(<<"1">>), link_code |-> Num(<<"1">>)],
      [link_adm |-> Num(<<"1">>), link_code |-> Num(<<"2">>)],
      [link_adm |-> Num(<<"2">>), link_code |-> Num(<<"1">>)] }

\* rows with a missing code: a translation entry without soil code, a soil
\* row without code
UncodedLinkRecords ==
    { [link_adm |-> Num(<<"2">>), link_code |-> NaNCell] }
UncodedSoilRecords ==
    { [code |-> NaNCell, crop |-> Some("apple"), best |-> Some(2), good |-> Some(2)] }

\* a soil file without the ratio columns carries no ratio in any row
WithoutRatios(rows) ==
    [i \in 1..Len(rows) |-> [rows[i] EXCEPT !.best = None, !.good = None]]

\* a boundary file holds a feature once
GeoFiles(n) ==
    {None} \cup {Some(t) : t \in {u \in SeqsUpTo(BoundaryRecords, n) :
                                    \A i, j \in 1..Len(u) : u[i] = u[j] => i = j}}
SoilFiles(n, m) ==
    {None}
    \cup {Some([has_ratio |-> TRUE, rows |-> t]) : t \in SeqsUpTo(SoilRecords, n)}
    \cup {Some([has_ratio |-> FALSE, rows |-> WithoutRatios(t)]) :
            t \in SeqsUpTo(SoilRecords, m)}
LinkFiles(n) == {None} \cup {Some(t) : t \in SeqsUpTo(LinkRecords, n)}

-----------------------------------------------------------------------------
(* CropRegionVisualizer.load_data *)

NormalizeGdf(g) ==
    [i \in 1..Len(g) |-> [g[i] EXCEPT !.adm_cd2 = NormalizeCode(g[i].adm_cd2)]]

NormalizeSoil(sd) ==
    LET codes == {sd.rows[i].code : i \in 1..Len(sd.rows)}
    IN [sd EXCEPT !.rows =
          [i \in 1..Len(sd.rows) |->
              [sd.rows[i] EXCEPT !.code = NormalizeCodeIn(codes, sd.rows[i].code)]]]

NormalizeLink(lt) ==
    LET adms == {lt[i].link_adm : i \in 1..Len(lt)}
        codes == {lt[i].link_code : i \in 1..Len(lt)}
    IN [i \in 1..Len(lt) |->
          [link_adm |-> NormalizeCodeIn(adms, lt[i].link_adm),
           link_code |-> NormalizeCodeIn(codes, lt[i].link_code)]]

\* _merge_data on freshly read tables: the merged table with its score
_merge_data(g, sd, lt) ==
    _calculate_score(sd.has_ratio,
        IF ~IsNone(lt)
        THEN _merge_with_link_table(NormalizeGdf(g), NormalizeLink(Val(lt)),
                                    NormalizeSoil(sd).rows)
        ELSE _merge_direct(NormalizeGdf(g), NormalizeSoil(sd).rows))

\* the outcome of a call: what was called with which arguments, "ok" or the
\* exception class with the kind of its message, and the value returned
Returned(op, args, value) ==
    [op |-> op, args |-> args, status |-> "ok", msg |-> "", value |-> value]
Raised(op, args, error, msg) ==
    [op |-> op, args |-> args, status |-> error, msg |-> msg, value |-> <<>>]

NoArgs == [none |-> TRUE]

\* a load_data that drops the merged table when a file is missing
LoadDataClearing ==
    /\ constructed = "CropRegionVisualizer"
    /\ IF IsNone(fs.geo) \/ IsNone(fs.soil)
       THEN /\ result' = Raised("load_data", NoArgs, "FileNotFoundError",
                                IF IsNone(fs.geo) THEN "geojson" ELSE "soil")
            /\ merged_data' = None
            /\ UNCHANGED <<gdf, soil_data, link_table>>
       ELSE /\ gdf' = Some(NormalizeGdf(Val(fs.geo)))
            /\ soil_data' = Some(NormalizeSoil(Val(fs.soil)))
            /\ link_table' = IF IsNone(fs.link) THEN None
                             ELSE Some(NormalizeLink(Val(fs.link)))
            /\ merged_data' = Some(_merge_data(Val(fs.geo), Val(fs.soil), fs.link))
            /\ result' = Returned("load_data", NoArgs, <<>>)
    /\ UNCHANGED <<fs, constructed, sort_ties, results, trained_models>>

LoadData ==
    /\ constructed = "CropRegionVisualizer"
    /\ IF IsNone(fs.geo)
       THEN \* _load_geojson raises before anything is assigned
            /\ result' = Raised("load_data", NoArgs, "FileNotFoundError", "geojson")
            /\ UNCHANGED vizVars
       ELSE IF IsNone(fs.soil)
       THEN \* _load_soil_data raises after self.gdf was assigned
            /\ gdf' = fs.geo
            /\ result' = Raised("load_data", NoArgs, "FileNotFoundError", "soil")
            /\ UNCHANGED <<soil_data, link_table, merged_data>>
       ELSE /\ gdf' = Some(NormalizeGdf(Val(fs.geo)))
            /\ soil_data' = Some(NormalizeSoil(Val(fs.soil)))
            /\ link_table' = IF IsNone(fs.link) THEN None
                             ELSE Some(NormalizeLink(Val(fs.link)))
            /\ merged_data' = Some(_merge_data(Val(fs.geo), Val(fs.soil), fs.link))
            /\ result' = Returned("load_data", NoArgs, <<>>)
    /\ UNCHANGED <<fs, constructed, sort_ties, results, trained_models>>

-----------------------------------------------------------------------------
(* DataFrame operations used by the searches *)

Min(a, b) == IF a <= b THEN a ELSE b
Max(a, b) == IF a >= b THEN a ELSE b

\* DataFrame.head(n): the first n rows; for a negative n, all rows but the
\* last -n
HeadRows(rows, n) ==
    IF n >= 0 THEN SubSeq(rows, 1, Min(n, Len(rows)))
    ELSE SubSeq(rows, 1, Max(0, Len(rows) + n))

\* DataFrame.drop_duplicates(col): the first row of each value of the column
\* (two nulls count as the same value)
DropDuplicatesBy(rows, Key(_)) ==
    Rows(rows, SelectIdx(Len(rows),
        LAMBDA i : \A j \in 1..(i - 1) : Key(rows[j]) # Key(rows[i])))

\* what the quicksort of the installed numpy does with rows of equal score:
\* it is not a stable sort, so the order of such rows depends on the build
\* (and on the size of the table), but it is a function of its input
TieOrders == {"original", "reversed"}

\* the order in which the scored rows S come out of a descending sort
RECURSIVE Orderings(_, _)
Orderings(rows, S) ==
    IF S = {} THEN {<<>>}
    ELSE LET top == {i \in S : \A j \in S : Val(rows[j].score) <= Val(rows[i].score)}
             first == IF sort_ties = "original"
                      THEN CHOOSE i \in top : \A j \in top : i <= j
                      ELSE CHOOSE i \in top : \A j \in top : i >= j
         IN {<<first>> \o t : t \in Orderings(rows, S \ {first})}

\* the same sort with na_position="first": rows without a score come first
SortByScoreDescNaNFirst(rows) ==
    LET scored == {i \in 1..Len(rows) : ~IsNone(rows[i].score)}
        nans == Ascending({i \in 1..Len(rows) : IsNone(rows[i].score)})
    IN {Rows(rows, nans \o o) : o \in Orderings(rows, scored)}

\* DataFrame.sort_values("최적지_점수", ascending=False): the table the sort
\* returns (as a set of one); rows without a score come last (na_position="last"), in
\* their original order
SortByScoreDesc(rows) ==
    LET scored == {i \in 1..Len(rows) : ~IsNone(rows[i].score)}
        nans == Ascending({i \in 1..Len(rows) : IsNone(rows[i].score)})
    IN {Rows(rows, o \o nans) : o \in Orderings(rows, scored)}

\* re.search(pat, s) for a pattern of literal characters and '.', which
\* matches any character
RegexSearch(pat, s) ==
    \E i \in 1..(Len(s) - Len(pat) + 1) :
        \A k \in 1..Len(pat) : pat[k] = "." \/ pat[k] = s[i + k - 1]

\* Series.str.contains(pat, na=False), with the default regex=True
StrContains(cell, pat) ==
    IF IsNone(cell) THEN FALSE ELSE RegexSearch(pat, Val(cell))

-----------------------------------------------------------------------------
(* CropRegionVisualizer.get_available_crops / get_available_regions *)

\* the crop names in alphabetical order
CropNames == <<"apple", "baechu">>

AVAILABLE_SHOWN == 10

\* Series.unique(): the distinct cells, a NaN included
UniqueCrops(rows) == {rows[i].crop : i \in 1..Len(rows)}

\* sorted() compares every cell with another one, and a NaN (float) with a
\* str raises TypeError
SortedRaises(cells) == None \in cells /\ Cardinality(cells) > 1

SortedCrops(cells) ==
    IF cells = {None} THEN <<None>>
    ELSE [k \in 1..Cardinality(cells) |->
            Some(CropNames[Ascending({i \in 1..Len(CropNames) :
                                        Some(CropNames[i]) \in cells})[k]])]

GetAvailableCrops ==
    /\ constructed = "CropRegionVisualizer"
    /\ result' =
         IF IsNone(merged_data)
         THEN Raised("get_available_crops", NoArgs, "ValueError", "load_first")
         ELSE IF SortedRaises(UniqueCrops(Val(merged_data).rows))
         THEN Raised("get_available_crops", NoArgs, "TypeError", "sorted")
         ELSE Returned("get_available_crops", NoArgs,
                       SortedCrops(UniqueCrops(Val(merged_data).rows)))
    /\ UNCHANGED <<fs, constructed, sort_ties, vizVars, predVars>>

\* the order of sort_values(["sidonm", "adm_nm"]): by province, then by
\* district name, a null name last
CharRank(c) == CASE c = " " -> 0 [] c = "." -> 1 [] c = "a" -> 2 [] c = "b" -> 3
                 [] OTHER -> 4
SidoRank(x) == IF x = "P" THEN 1 ELSE 2

RECURSIVE TextLess(_, _)
TextLess(x, y) ==
    IF y = <<>> THEN FALSE
    ELSE IF x = <<>> THEN TRUE
    ELSE IF CharRank(Head(x)) # CharRank(Head(y))
    THEN CharRank(Head(x)) < CharRank(Head(y))
    ELSE TextLess(Tail(x), Tail(y))

RegionLess(p, q) ==
    IF p.sidonm # q.sidonm THEN SidoRank(p.sidonm) < SidoRank(q.sidonm)
    ELSE IF IsNone(p.adm_nm) THEN FALSE
    ELSE IF IsNone(q.adm_nm) THEN TRUE
    ELSE TextLess(Val(p.adm_nm), Val(q.adm_nm))

RECURSIVE SortRegions(_)
SortRegions(S) ==
    IF S = {} THEN <<>>
    ELSE LET m == CHOOSE p \in S : \A q \in S \ {p} : RegionLess(p, q)
         IN <<m>> \o SortRegions(S \ {m})

GetAvailableRegions ==
    /\ constructed = "CropRegionVisualizer"
    /\ result' =
         IF IsNone(merged_data)
         THEN Raised("get_available_regions", NoArgs, "ValueError", "load_first")
         ELSE Returned("get_available_regions", NoArgs,
                SortRegions({[sidonm |-> Val(merged_data).rows[i].sidonm,
                              adm_nm |-> Val(merged_data).rows[i].adm_nm] :
                             i \in 1..Len(Val(merged_data).rows)}))
    /\ UNCHANGED <<fs, constructed, sort_ties, vizVars, predVars>>

-----------------------------------------------------------------------------
(* CropRegionVisualizer.search_by_crop / search_by_region *)

MaxTopN == 2
MaxPat == 1

TopNs == (-1)..MaxTopN
PatternChars == {"a", "."}
Patterns == UNION {[1..k -> PatternChars] : k \in 1..MaxPat}
Sidos == {"P", "Q"}

FilterRows(rows, Keep(_)) ==
    Rows(rows, SelectIdx(Len(rows), LAMBDA i : Keep(rows[i])))

\* a table as it is, no row dropped
KeepAllRows(rows) == rows

DropDuplicatesByCode(rows) == DropDuplicatesBy(rows, LAMBDA r : r.code)
DropDuplicatesByCrop(rows) == DropDuplicatesBy(rows, LAMBDA r : r.crop)

\* .sort_values(score, ascending=False).drop_duplicates(법정동코드).head(top_n):
\* every value the chain can return
RankedRegions(filtered, top_n) ==
    {HeadRows(DropDuplicatesByCode(sorted), top_n) :
        sorted \in SortByScoreDesc(filtered)}

\* .sort_values(score, ascending=False).drop_duplicates(작물이름).head(top_n)
RankedCrops(filtered, top_n) ==
    {HeadRows(DropDuplicatesByCrop(sorted), top_n) :
        sorted \in SortByScoreDesc(filtered)}

\* merged_data[merged_data[작물이름] == crop_name]: a null equals no name
FilterByCrop(rows, crop_name) ==
    FilterRows(rows, LAMBDA r : r.crop = Some(crop_name))

\* merged_data[(sidonm == sido) & adm_nm.str.contains(dong, na=False)]
FilterByRegion(rows, sido, dong) ==
    FilterRows(rows, LAMBDA r : r.sidonm = sido /\ StrContains(r.adm_nm, dong))

CropArgs(crop_name, top_n) == [crop_name |-> crop_name, top_n |-> top_n]

\* the outcomes of search_by_crop(crop_name, top_n) on a visualizer whose
\* merged table is md (an option)
SearchByCropOutcomes(md, crop_name, top_n) ==
    LET args == CropArgs(crop_name, top_n)
        filtered == FilterByCrop(Val(md).rows, crop_name)
    IN IF IsNone(md)
       THEN {Raised("search_by_crop", args, "ValueError", "load_first")}
       ELSE IF filtered = <<>>
       THEN IF SortedRaises(UniqueCrops(Val(md).rows))
            THEN {Raised("search_by_crop", args, "TypeError", "sorted")}
            ELSE {[Raised("search_by_crop", args, "ValueError", "crop_not_found")
                     EXCEPT !.value =
                        SubSeq(SortedCrops(UniqueCrops(Val(md).rows)), 1,
                               Min(AVAILABLE_SHOWN,
                                   Cardinality(UniqueCrops(Val(md).rows))))]}
       ELSE IF ~Val(md).has_score
       THEN {Raised("search_by_crop", args, "KeyError", "score_column")}
       ELSE {Returned("search_by_crop", args, v) :
                v \in RankedRegions(filtered, top_n)}

\* a search_by_crop that filters the merged table in place
SearchByCropInPlace(crop_name, top_n) ==
    /\ constructed = "CropRegionVisualizer"
    /\ result' \in SearchByCropOutcomes(merged_data, crop_name, top_n)
    /\ merged_data' =
         IF result'.status = "ok"
         THEN Some([Val(merged_data) EXCEPT
                      !.rows = FilterByCrop(Val(merged_data).rows, crop_name)])
         ELSE merged_data
    /\ UNCHANGED <<fs, constructed, sort_ties, gdf, soil_data, link_table, predVars>>

SearchByCrop(crop_name, top_n) ==
    /\ constructed = "CropRegionVisualizer"
    /\ result' \in SearchByCropOutcomes(merged_data, crop_name, top_n)
    /\ UNCHANGED <<fs, constructed, sort_ties, vizVars, predVars>>

RegionArgs(sido, dong, top_n) == [sido |-> sido, dong |-> dong, top_n |-> top_n]

SearchByRegionOutcomes(md, sido, dong, top_n) ==
    LET args == RegionArgs(sido, dong, top_n)
        filtered == FilterByRegion(Val(md).rows, sido, dong)
    IN IF IsNone(md)
       THEN {Raised("search_by_region", args, "ValueError", "load_first")}
       ELSE IF filtered = <<>>
       THEN {Raised("search_by_region", args, "ValueError", "region_not_found")}
       ELSE IF ~Val(md).has_score
       THEN {Raised("search_by_region", args, "KeyError", "score_column")}
       ELSE {Returned("search_by_region", args, v) :
                v \in RankedCrops(filtered, top_n)}

SearchByRegion(sido, dong, top_n) ==
    /\ constructed = "CropRegionVisualizer"
    /\ result' \in SearchByRegionOutcomes(merged_data, sido, dong, top_n)
    /\ UNCHANGED <<fs, constructed, sort_ties, vizVars, predVars>>

-----------------------------------------------------------------------------
(* CropPricePredictor *)

\* the model families, in the order train_all_models trains them
MODELS == <<"linear", "ridge", "lasso", "polynomial", "random_forest">>
ModelNames == {MODELS[i] : i \in 1..Len(MODELS)}

\* held-out RMSE values, in thousandths
RmseValues == {1004, 2000}

\* what one run of _train_model can do: the grid search raises, the
\* evaluation raises, or both succeed with some RMSE
TrainOutcomes ==
    {[kind |-> "fit_raises", rmse |-> 0], [kind |-> "evaluate_raises", rmse |-> 0]}
    \cup {[kind |-> "ok", rmse |-> r] : r \in RmseValues}

\* a dict: a function on its keys. The order of the keys is not recorded;
\* where an outcome depends on it, every outcome is allowed
EmptyDict == [k \in {} |-> {}]
DictSet(d, k, v) == [x \in DOMAIN d \cup {k} |-> IF x = k THEN v ELSE d[x]]

\* a _train_model that records the result and forgets the estimator
TrainModelWithoutStoring(res, tm, name, o) ==
    IF o.kind = "ok"
    THEN [results |-> DictSet(res, name, [model_name |-> name, rmse |-> o.rmse]),
          trained_models |-> tm, status |-> "ok", msg |-> ""]
    ELSE [results |-> res, trained_models |-> tm, status |-> "ValueError",
          msg |-> IF o.kind = "fit_raises" THEN "fit" ELSE "evaluate"]

\* _train_model: the best estimator is stored before it is evaluated
_train_model(res, tm, name, o) ==
    IF o.kind = "fit_raises"
    THEN [results |-> res, trained_models |-> tm, status |-> "ValueError", msg |-> "fit"]
    ELSE IF o.kind = "evaluate_raises"
    THEN [results |-> res, trained_models |-> tm \cup {name},
          status |-> "ValueError", msg |-> "evaluate"]
    ELSE [results |-> DictSet(res, name, [model_name |-> name, rmse |-> o.rmse]),
          trained_models |-> tm \cup {name},
          status |-> "ok", msg |-> ""]

Train(name) ==
    /\ constructed = "CropPricePredictor"
    /\ \E o \in TrainOutcomes :
         LET t == _train_model(results, trained_models, name, o)
         IN /\ results' = t.results
            /\ trained_models' = t.trained_models
            /\ result' = [op |-> "train", args |-> [model_name |-> name],
                          status |-> t.status, msg |-> t.msg,
                          value |-> IF t.status = "ok" THEN <<t.results[name]>> ELSE <<>>]
    /\ UNCHANGED <<fs, constructed, sort_ties, vizVars>>

\* a loop that goes on with the next family after an exception and raises
\* the first exception at its end
RECURSIVE TrainAllKeepGoing(_, _, _)
TrainAllKeepGoing(res, tm, i) ==
    IF i > Len(MODELS)
    THEN {[results |-> res, trained_models |-> tm, status |-> "ok", msg |-> "",
           failed |-> 0]}
    ELSE UNION {LET t == _train_model(res, tm, MODELS[i], o)
                IN IF t.status = "ok"
                   THEN TrainAllKeepGoing(t.results, t.trained_models, i + 1)
                   ELSE {[r EXCEPT !.status = t.status, !.msg = t.msg, !.failed = i] :
                           r \in TrainAllKeepGoing(t.results, t.trained_models, i + 1)} :
                o \in TrainOutcomes}

\* train_all_models from family i on: an exception ends the loop
RECURSIVE TrainAllFrom(_, _, _)
TrainAllFrom(res, tm, i) ==
    IF i > Len(MODELS)
    THEN {[results |-> res, trained_models |-> tm, status |-> "ok", msg |-> "",
           failed |-> 0]}
    ELSE UNION {LET t == _train_model(res, tm, MODELS[i], o)
                IN IF t.status = "ok"
                   THEN TrainAllFrom(t.results, t.trained_models, i + 1)
                   ELSE {[results |-> t.results, trained_models |-> t.trained_models,
                          status |-> t.status, msg |-> t.msg, failed |-> i]} :
                o \in TrainOutcomes}

TrainAllModels ==
    /\ constructed = "CropPricePredictor"
    /\ \E t \in TrainAllFrom(results, trained_models, 1) :
         /\ results' = t.results
         /\ trained_models' = t.trained_models
         /\ result' = [op |-> "train_all_models", args |-> NoArgs,
                       status |-> t.status, msg |-> t.msg,
                       value |-> IF t.status = "ok" THEN <<t.results>> ELSE <<t.failed>>]
    /\ UNCHANGED <<fs, constructed, sort_ties, vizVars>>

\* min(self.results, key=rmse): a key of least RMSE (the first one in the
\* dict's order)
\* max instead of min: a key of greatest RMSE
WorstNames(res) ==
    {n \in DOMAIN res : \A m \in DOMAIN res : res[n].rmse >= res[m].rmse}

BestNames(res) ==
    {n \in DOMAIN res : \A m \in DOMAIN res : res[n].rmse <= res[m].rmse}

GetBestModel ==
    /\ constructed = "CropPricePredictor"
    /\ IF DOMAIN results = {}
       THEN result' = Raised("get_best_model", NoArgs, "ValueError", "train_first")
       ELSE \E n \in BestNames(results) :
                result' = Returned("get_best_model", NoArgs, <<n, results[n]>>)
    /\ UNCHANGED <<fs, constructed, sort_ties, vizVars, predVars>>

\* round(x, 2) of a value in thousandths, in hundredths
Round2(x) == (x + 5) \div 10

\* sort_values("RMSE", ascending=False): greatest RMSE first
RECURSIVE DescendingOrders(_, _)
DescendingOrders(res, S) ==
    IF S = {} THEN {<<>>}
    ELSE LET high == {n \in S : \A m \in S : Round2(res[n].rmse) >= Round2(res[m].rmse)}
         IN UNION {{<<[Model |-> n, RMSE |-> Round2(res[n].rmse)]>> \o t :
                        t \in DescendingOrders(res, S \ {n})} : n \in high}

\* the orders in which sort_values("RMSE") can return the rows of the names
\* S (quicksort: equal values in any order)
RECURSIVE AscendingOrders(_, _)
AscendingOrders(res, S) ==
    IF S = {} THEN {<<>>}
    ELSE LET low == {n \in S : \A m \in S : Round2(res[n].rmse) <= Round2(res[m].rmse)}
         IN UNION {{<<[Model |-> n, RMSE |-> Round2(res[n].rmse)]>> \o t :
                        t \in AscendingOrders(res, S \ {n})} : n \in low}

Summary ==
    /\ constructed = "CropPricePredictor"
    /\ IF DOMAIN results = {}
       THEN result' = Raised("summary", NoArgs, "ValueError", "train_first")
       ELSE \E v \in AscendingOrders(results, DOMAIN results) :
                result' = Returned("summary", NoArgs, v)
    /\ UNCHANGED <<fs, constructed, sort_ties, vizVars, predVars>>

\* the model names predict and save_model are called with
NameArgs == {"linear", "svm"}

Predict(model_name) ==
    /\ constructed = "CropPricePredictor"
    /\ result' =
         IF model_name \notin trained_models
         THEN Raised("predict", [model_name |-> model_name], "ValueError", "not_trained")
         ELSE Returned("predict", [model_name |-> model_name], <<model_name>>)
    /\ UNCHANGED <<fs, constructed, sort_ties, vizVars, predVars>>

\* a save_model that pickles whatever it finds under the name
SaveModelUnchecked(model_name) ==
    /\ constructed = "CropPricePredictor"
    /\ result' = Returned("save_model", [model_name |-> model_name], <<model_name>>)
    /\ fs' = [fs EXCEPT !.models = @ \cup {model_name}]
    /\ UNCHANGED <<constructed, sort_ties, vizVars, predVars>>

\* save_model with the default path: outputs/models/{crop}_{model}.pkl
SaveModel(model_name) ==
    /\ constructed = "CropPricePredictor"
    /\ IF model_name \notin trained_models
       THEN /\ result' = Raised("save_model", [model_name |-> model_name],
                                "ValueError", "not_trained")
            /\ fs' = fs
       ELSE /\ result' = Returned("save_model", [model_name |-> model_name],
                                  <<model_name>>)
            /\ fs' = [fs EXCEPT !.models = @ \cup {model_name}]
    /\ UNCHANGED <<constructed, sort_ties, vizVars, predVars>>

-----------------------------------------------------------------------------
(* data_loader.load_crop_data *)

CROPS == {"apple", "onion", "baechu", "radish", "gyul", "peach"}

MaxCropFiles == 1

CropKeyArgs == {"apple", "peach", "invalid_crop"}
DataPathArgs == {None, Some("other")}

\* a crop file final_{crop}.csv in a directory, with what it holds
CropFileRecords ==
    [dir : {"processed", "other"}, crop : {"apple", "invalid_crop"},
     nrows : 0..1, has_target : BOOLEAN]

CropFileSets ==
    {F \in SUBSET CropFileRecords :
        /\ Cardinality(F) <= MaxCropFiles
        /\ \A f, g \in F : (f.dir = g.dir /\ f.crop = g.crop) => f = g}

\* a loader that looks the file up before it checks the key
LoadCropDataFileFirst(files, crop, data_path) ==
    LET args == [crop |-> crop, data_path |-> data_path]
        dir == IF IsNone(data_path) THEN "processed" ELSE Val(data_path)
        found == {f \in files : f.dir = dir /\ f.crop = crop}
    IN IF found = {}
       THEN Raised("load_crop_data", args, "FileNotFoundError", "crop_file")
       ELSE IF crop \notin CROPS
       THEN [Raised("load_crop_data", args, "ValueError", "unsupported_crop")
               EXCEPT !.value = CROPS]
       ELSE Returned("load_crop_data", args,
                     LET f == CHOOSE f \in found : TRUE
                     IN <<[nrows |-> f.nrows, has_target |-> f.has_target]>>)

LoadCropDataOutcome(files, crop, data_path) ==
    LET args == [crop |-> crop, data_path |-> data_path]
        dir == IF IsNone(data_path) THEN "processed" ELSE Val(data_path)
        found == {f \in files : f.dir = dir /\ f.crop = crop}
    IN IF crop \notin CROPS
       THEN [Raised("load_crop_data", args, "ValueError", "unsupported_crop")
               EXCEPT !.value = CROPS]
       ELSE IF found = {}
       THEN Raised("load_crop_data", args, "FileNotFoundError", "crop_file")
       ELSE Returned("load_crop_data", args,
                     LET f == CHOOSE f \in found : TRUE
                     IN <<[nrows |-> f.nrows, has_target |-> f.has_target]>>)

LoadCropData(crop, data_path) ==
    /\ result' = LoadCropDataOutcome(fs.crop_files, crop, data_path)
    /\ UNCHANGED <<fs, constructed, sort_ties, vizVars, predVars>>

-----------------------------------------------------------------------------
(* The program *)

NoFiles == [geo |-> None, soil |-> None, link |-> None,
            crop_files |-> {}, models |-> {}]

VizDisks(ng, ns, nr, nl) ==
    {[NoFiles EXCEPT !.geo = g, !.soil = sf, !.link = lf] :
        g \in GeoFiles(ng), sf \in SoilFiles(ns, nr), lf \in LinkFiles(nl)}

\* the disks of the merge: tables whose code columns can have missing cells
MergeDisks ==
    {[NoFiles EXCEPT !.geo = g, !.soil = sf, !.link = lf] :
        g \in GeoFiles(MaxGeo),
        sf \in {None}
              \cup {Some([has_ratio |-> TRUE, rows |-> t]) :
                      t \in SeqsUpTo(SoilRecords \cup UncodedSoilRecords, MaxSoil)}
              \cup {Some([has_ratio |-> FALSE, rows |-> WithoutRatios(t)]) :
                      t \in SeqsUpTo(SoilRecords, MaxSoilNoRatio)},
        lf \in {None}
              \cup {Some(t) : t \in SeqsUpTo(LinkRecords \cup UncodedLinkRecords,
                                             MaxLink)}}

LoaderDisks == {[NoFiles EXCEPT !.crop_files = F] : F \in CropFileSets}

\* the state after construction (or, for "none", at import) with the disk D
Fresh(obj, D, T) ==
    /\ constructed = obj
    /\ fs \in D
    /\ sort_ties \in T
    /\ gdf = None
    /\ soil_data = None
    /\ link_table = None
    /\ merged_data = None
    /\ results = EmptyDict
    /\ trained_models = {}
    /\ result = [op |-> "__init__", args |-> NoArgs, status |-> "ok",
                 msg |-> "", value |-> <<>>]

CropQueries == {CropNames[i] : i \in 1..Len(CropNames)}

\* the arguments the searches are called with: while no merged table is
\* loaded a search raises before it looks at its arguments, and one call
\* stands for all
CropQueriesNow == IF IsNone(merged_data) THEN {CropNames[1]} ELSE CropQueries
SidosNow == IF IsNone(merged_data) THEN {"P"} ELSE Sidos
PatternsNow == IF IsNone(merged_data) THEN {<<"a">>} ELSE Patterns
TopNsNow == IF IsNone(merged_data) THEN {1} ELSE TopNs

NextVisualizer ==
    \/ LoadData
    \/ GetAvailableCrops
    \/ GetAvailableRegions
    \/ \E c \in CropQueriesNow, n \in TopNsNow : SearchByCrop(c, n)
    \/ \E sd \in SidosNow, d \in PatternsNow, n \in TopNsNow :
          SearchByRegion(sd, d, n)

NextPredictor ==
    \/ \E m \in ModelNames : Train(m)
    \/ TrainAllModels
    \/ GetBestModel
    \/ Summary
    \/ \E m \in NameArgs : Predict(m)
    \/ \E m \in NameArgs : SaveModel(m)

NextLoader ==
    \E c \in CropKeyArgs, dp \in DataPathArgs : LoadCropData(c, dp)

\* a CropRegionVisualizer over every disk within the bounds
\* the rows the three tables of a disk hold together
MaxRows == 5

DiskRows(d) ==
    (IF IsNone(d.geo) THEN 0 ELSE Len(Val(d.geo)))
    + (IF IsNone(d.soil) THEN 0 ELSE Len(Val(d.soil).rows))
    + (IF IsNone(d.link) THEN 0 ELSE Len(Val(d.link)))

Init == Fresh("CropRegionVisualizer",
              {d \in VizDisks(MaxGeo, MaxSoil, MaxSoilNoRatio, MaxLink) :
                  DiskRows(d) <= MaxRows},
              TieOrders)
Next == NextVisualizer
Spec == Init /\ [][Next]_vars

\* a CropPricePredictor
\* (summary orders equal RMSE values in any way, whatever sort_ties is)
InitPredictor == Fresh("CropPricePredictor", {NoFiles}, {"original"})
SpecPredictor == InitPredictor /\ [][NextPredictor]_vars

\* the module function load_crop_data over every set of crop files
InitLoader == Fresh("none", LoaderDisks, {"original"})
SpecLoader == InitLoader /\ [][NextLoader]_vars

\* a program that uses any one of the three, the visualizer over the disks
\* of at most one row a table
InitProgram ==
    \/ Fresh("CropRegionVisualizer", VizDisks(1, 1, 1, 1), TieOrders)
    \/ InitPredictor
    \/ InitLoader
NextProgram == NextVisualizer \/ NextPredictor \/ NextLoader
SpecProgram == InitProgram /\ [][NextProgram]_vars

\* the environment: one of the three input files is deleted between calls
FileKinds == {"geo", "soil", "link"}

RemoveFile ==
    /\ constructed = "CropRegionVisualizer"
    /\ \E k \in FileKinds :
          /\ ~IsNone(fs[k])
          /\ fs' = [fs EXCEPT ![k] = None]
    /\ UNCHANGED <<constructed, sort_ties, vizVars, predVars, result>>

\* load_data over the disks of the merge (no score is sorted here)
InitMerge == Fresh("CropRegionVisualizer", MergeDisks, {"original"})
NextMerge == LoadData \/ GetAvailableCrops \/ GetAvailableRegions
SpecMerge == InitMerge /\ [][NextMerge]_vars

\* a CropRegionVisualizer over the disks of at most one row a table, with
\* files that can disappear
InitDisk == Fresh("CropRegionVisualizer", VizDisks(1, 1, 1, 1), TieOrders)
NextDisk == NextVisualizer \/ RemoveFile
SpecDisk == InitDisk /\ [][NextDisk]_vars

-----------------------------------------------------------------------------
(* Properties of search_by_crop *)

\* C1: the number of rows search_by_crop(crop_name, top_n) returns is at
\* most top_n, for every integer top_n, zero and negative ones included.
\* head(top_n) with a negative top_n keeps all rows but the last -top_n.
SearchByCropAtMostTopN ==
    (result.op = "search_by_crop" /\ result.status = "ok")
        => Len(result.value) <= result.args.top_n

\* C2: the result of search_by_crop holds no two rows with the same soil
\* code (법정동코드) and no two rows with the same boundary code (adm_cd2).
\* Only the soil code is deduplicated.
SearchByCropNoDuplicateRegionCodes ==
    (result.op = "search_by_crop" /\ result.status = "ok")
        => \A i, j \in 1..Len(result.value) :
              i # j => /\ result.value[i].code # result.value[j].code
                       /\ result.value[i].adm_cd2 # result.value[j].adm_cd2

\* C3: once load_data has succeeded, search_by_crop with a crop name that
\* no merged row carries fails with the not-found ValueError, which lists
\* at most 10 of the available crop names.
AbsentCropIsNotFound ==
    (/\ result.op = "search_by_crop"
     /\ ~IsNone(merged_data)
     /\ FilterByCrop(Val(merged_data).rows, result.args.crop_name) = <<>>)
        => /\ result.status = "ValueError"
           /\ result.msg = "crop_not_found"
           /\ Len(result.value) <= AVAILABLE_SHOWN

-----------------------------------------------------------------------------
(* Properties of search_by_region, of the order of the results and of the
   score *)

\* C4: the result of search_by_region holds no two rows with the same crop
\* name, whatever the merged table and the arguments.
SearchByRegionNoDuplicateCrops ==
    (result.op = "search_by_region" /\ result.status = "ok")
        => \A i, j \in 1..Len(result.value) :
              i # j => result.value[i].crop # result.value[j].crop

\* a search_by_region that returned although several of the rows it
\* matched carry the same crop name
SearchByRegionMatchedOneCropTwice ==
    /\ result.op = "search_by_region"
    /\ result.status = "ok"
    /\ result.value # <<>>
    /\ LET matched == FilterByRegion(Val(merged_data).rows, result.args.sido,
                                     result.args.dong)
       IN \E i, j \in 1..Len(matched) :
             i # j /\ matched[i].crop = matched[j].crop

\* C5: the rows returned by search_by_crop and by search_by_region are in
\* descending order of score: of two consecutive rows, the earlier one's
\* score is greater than or equal to the later one's. A row without a score
\* compares with no row.
ResultsInDescendingScoreOrder ==
    (result.op \in {"search_by_crop", "search_by_region"} /\ result.status = "ok")
        => \A i \in 1..(Len(result.value) - 1) :
              /\ ~IsNone(result.value[i].score)
              /\ ~IsNone(result.value[i + 1].score)
              /\ Val(result.value[i].score) >= Val(result.value[i + 1].score)

\* C6: every row search_by_region(sido, dong, top_n) returns has the province
\* sido and a district name that is not null and contains dong as a literal
\* substring, whatever characters dong is made of.
SearchByRegionRowsMatchLiterally ==
    (result.op = "search_by_region" /\ result.status = "ok")
        => \A i \in 1..Len(result.value) :
              LET row == result.value[i]
                  dong == result.args.dong
              IN /\ row.sidonm = result.args.sido
                 /\ ~IsNone(row.adm_nm)
                 /\ \E k \in 1..(Len(Val(row.adm_nm)) - Len(dong) + 1) :
                       SubSeq(Val(row.adm_nm), k, k + Len(dong) - 1) = dong

\* C7: after the merge, a merged row whose best-fit ratio is b and whose
\* good-fit ratio is g carries the score (2*b + g) / 2.
ScoreIsWeightedMean ==
    ~IsNone(merged_data)
        => \A i \in 1..Len(Val(merged_data).rows) :
              LET row == Val(merged_data).rows[i]
              IN (~IsNone(row.best) /\ ~IsNone(row.good))
                    => /\ ~IsNone(row.score)
                       /\ 2 * Val(row.score) = 2 * Val(row.best) + Val(row.good)

\* a merged row whose two ratios differ and whose score was computed
MergedRowWithUnequalRatios ==
    /\ ~IsNone(merged_data)
    /\ \E i \in 1..Len(Val(merged_data).rows) :
          LET row == Val(merged_data).rows[i]
          IN /\ ~IsNone(row.best) /\ ~IsNone(row.good) /\ ~IsNone(row.score)
             /\ Val(row.best) # Val(row.good)

-----------------------------------------------------------------------------
(* Properties of the error handling *)

\* C9: load_crop_data with a crop key outside the supported keys fails with
\* the configuration error that lists the supported keys, whether or not a
\* data file for that key exists and whatever data_path is given.
UnsupportedCropIsConfigError ==
    (result.op = "load_crop_data" /\ result.args.crop \notin CROPS)
        => /\ result.status = "ValueError"
           /\ result.msg = "unsupported_crop"
           /\ result.value = CROPS

\* load_crop_data was called with an unsupported key and with a data_path
\* under which a file for that key exists
UnsupportedCropWithFileOnDisk ==
    /\ result.op = "load_crop_data"
    /\ result.args.crop \notin CROPS
    /\ ~IsNone(result.args.data_path)
    /\ \E f \in fs.crop_files :
          f.crop = result.args.crop /\ f.dir = Val(result.args.data_path)

\* C10: a query made before its load or training step is rejected with a
\* ValueError and changes no state: the four queries of the visualizer while
\* the merged table is absent, get_best_model and summary while no result is
\* stored, predict and save_model for a name without a trained model.
EarlyQueryRejectedWithoutEffect ==
    [][ ( \/ /\ result'.op \in {"search_by_crop", "search_by_region",
                                "get_available_crops", "get_available_regions"}
             /\ IsNone(merged_data)
          \/ /\ result'.op \in {"get_best_model", "summary"}
             /\ DOMAIN results = {}
          \/ /\ result'.op \in {"predict", "save_model"}
             /\ result'.args.model_name \notin trained_models )
        => /\ result'.status = "ValueError"
           /\ result'.msg \in {"load_first", "train_first", "not_trained"}
           /\ UNCHANGED <<fs, constructed, sort_ties, vizVars, predVars>> ]_vars

\* a search was rejected after a load_data that had read the boundary file
\* and failed at the soil file
SearchRejectedAfterFailedLoad ==
    /\ result.op = "search_by_crop"
    /\ result.status = "ValueError"
    /\ result.msg = "load_first"
    /\ ~IsNone(gdf)
    /\ IsNone(merged_data)

-----------------------------------------------------------------------------
(* Properties of load_data and of the merge *)

\* C11: when the boundary file or the soil file is missing, load_data fails
\* with FileNotFoundError and the merged table is what it was before the
\* call (absent when no load had succeeded).
MissingFileKeepsMergedTable ==
    [][ (/\ result'.op = "load_data"
         /\ fs' = fs
         /\ (IsNone(fs.geo) \/ IsNone(fs.soil)))
        => /\ result'.status = "FileNotFoundError"
           /\ merged_data' = merged_data ]_vars

\* a load_data failed on a visualizer that holds the merged table of an
\* earlier load
LoadFailedAfterSuccessfulLoad ==
    /\ result.op = "load_data"
    /\ result.status = "FileNotFoundError"
    /\ ~IsNone(merged_data)
    /\ Val(merged_data).rows # <<>>

\* C12: when the boundary file and the soil file exist and the translation
\* file does not, load_data completes, records the translation table as
\* absent, and the merged table is the inner join of the boundary records
\* and the soil rows on boundary code = soil code: one row for each pair of
\* a boundary record and a soil row with equal codes, and no other row.
MissingLinkTableGivesDirectJoin ==
    (/\ result.op = "load_data"
     /\ ~IsNone(fs.geo) /\ ~IsNone(fs.soil) /\ IsNone(fs.link))
        => /\ result.status = "ok"
           /\ IsNone(link_table)
           /\ ~IsNone(merged_data)
           /\ LET g == Val(gdf)
                  soil == Val(soil_data).rows
                  rows == Val(merged_data).rows
                  pairs == {p \in (1..Len(g)) \X (1..Len(soil)) :
                               g[p[1]].adm_cd2 = soil[p[2]].code}
                  Joins(row, p) ==
                      /\ row.adm_cd2 = g[p[1]].adm_cd2
                      /\ row.sidonm = g[p[1]].sidonm
                      /\ row.adm_nm = g[p[1]].adm_nm
                      /\ row.code = soil[p[2]].code
                      /\ row.crop = soil[p[2]].crop
                      /\ row.best = soil[p[2]].best
                      /\ row.good = soil[p[2]].good
              IN /\ Len(rows) = Cardinality(pairs)
                 /\ \A p \in pairs : \E k \in 1..Len(rows) : Joins(rows[k], p)
                 /\ \A k \in 1..Len(rows) : \E p \in pairs : Joins(rows[k], p)

\* a load without translation file joined a boundary record whose code was
\* padded to a soil row, and left another boundary record out
DirectJoinMatchedAndDropped ==
    /\ result.op = "load_data"
    /\ result.status = "ok"
    /\ IsNone(fs.link)
    /\ \E i \in 1..Len(Val(fs.geo)) :
          /\ Val(fs.geo)[i].adm_cd2.s # Val(gdf)[i].adm_cd2
          /\ \E k \in 1..Len(Val(merged_data).rows) :
                Val(merged_data).rows[k].adm_cd2 = Val(gdf)[i].adm_cd2
    /\ \E i \in 1..Len(Val(gdf)) :
          \A k \in 1..Len(Val(merged_data).rows) :
             Val(merged_data).rows[k].adm_cd2 # Val(gdf)[i].adm_cd2

-----------------------------------------------------------------------------
(* Properties of the searches as queries *)

\* C13: search_by_crop and search_by_region change no field of the
\* visualizer, whether they return or fail, and what they return is a
\* function of the merged table and of the arguments: a search repeated
\* with the same arguments returns the same rows.
SearchesArePure ==
    /\ [][ (result'.op \in {"search_by_crop", "search_by_region"})
           => /\ UNCHANGED <<fs, constructed, sort_ties, vizVars, predVars>>
              /\ (result.op = result'.op /\ result.args = result'.args)
                    => result' = result ]_vars
    /\ [](/\ result.op = "search_by_crop"
               => SearchByCropOutcomes(merged_data, result.args.crop_name,
                                       result.args.top_n) = {result}
          /\ result.op = "search_by_region"
               => SearchByRegionOutcomes(merged_data, result.args.sido,
                                         result.args.dong,
                                         result.args.top_n) = {result})

\* a search_by_crop returned rows of a table in which two different rows of
\* the crop have the same score
SearchByCropAmongTiedRows ==
    /\ result.op = "search_by_crop"
    /\ result.status = "ok"
    /\ result.value # <<>>
    /\ LET rows == FilterByCrop(Val(merged_data).rows, result.args.crop_name)
       IN \E i, j \in 1..Len(rows) :
             /\ rows[i] # rows[j]
             /\ ~IsNone(rows[i].score)
             /\ rows[i].score = rows[j].score

\* C14: merged rows without a score (a ratio is missing, or the ratio
\* columns are absent and no score was computed) are left out of the results
\* of search_by_crop and search_by_region, and the search does not fail
\* because of them.
UnscoredRowsAreExcluded ==
    (result.op \in {"search_by_crop", "search_by_region"})
        => /\ result.status # "KeyError"
           /\ result.status = "ok"
                 => \A i \in 1..Len(result.value) : ~IsNone(result.value[i].score)

\* C15: the merged table produced by load_data holds no two rows with the
\* same pair (region code, crop name), also when several boundary codes are
\* translated to one soil code. The region code is the soil code (법정동코드);
\* the tables read hold a boundary code once and a pair (soil code, crop)
\* once.
MergedPairsAreUnique ==
    (/\ result.op = "load_data"
     /\ result.status = "ok"
     /\ \A i, j \in 1..Len(Val(gdf)) :
           Val(gdf)[i].adm_cd2 = Val(gdf)[j].adm_cd2 => i = j
     /\ \A i, j \in 1..Len(Val(soil_data).rows) :
           (/\ Val(soil_data).rows[i].code = Val(soil_data).rows[j].code
            /\ Val(soil_data).rows[i].crop = Val(soil_data).rows[j].crop) => i = j)
        => \A i, j \in 1..Len(Val(merged_data).rows) :
              (/\ Val(merged_data).rows[i].code = Val(merged_data).rows[j].code
               /\ Val(merged_data).rows[i].crop = Val(merged_data).rows[j].crop)
                  => i = j

-----------------------------------------------------------------------------
(* Properties of CropPricePredictor *)

\* C16: once a train_* call has succeeded, get_best_model returns the name
\* of a trained model together with that model's result, and its held-out
\* RMSE is at most the held-out RMSE of every trained model.
BestModelHasLeastRmse ==
    (result.op = "get_best_model")
        => /\ DOMAIN results # {} => result.status = "ok"
           /\ result.status = "ok"
                 => /\ result.value[1] \in DOMAIN results
                    /\ result.value[1] \in trained_models
                    /\ result.value[2] = results[result.value[1]]
                    /\ \A m \in DOMAIN results :
                          result.value[2].rmse <= results[m].rmse

\* get_best_model returned while models of different RMSE were trained
BestModelAmongUnequal ==
    /\ result.op = "get_best_model"
    /\ result.status = "ok"
    /\ \E m \in DOMAIN results : results[m].rmse > result.value[2].rmse

-----------------------------------------------------------------------------
(* Properties of the error conditions and of the loader *)

\* C17: a search that matches no row fails with an error condition that a
\* caller can tell apart from the configuration error (unsupported crop
\* key), from the missing-resource error and from the precondition error
\* (search before load): its exception class is none of theirs.
NotFoundIsDistinctCondition ==
    (result.msg \in {"crop_not_found", "region_not_found"})
        => /\ result.status # LoadCropDataOutcome({}, "invalid_crop", None).status
           /\ result.status # LoadCropDataOutcome({}, "apple", None).status
           /\ \A r \in SearchByCropOutcomes(None, "apple", 1) :
                 result.status # r.status

\* C18: for a supported crop key whose data file exists, load_crop_data
\* returns a table that has at least one row and the target price column.
LoadedCropTableHasRowsAndTarget ==
    (/\ result.op = "load_crop_data"
     /\ result.args.crop \in CROPS
     /\ \E f \in fs.crop_files :
           /\ f.crop = result.args.crop
           /\ f.dir = (IF IsNone(result.args.data_path) THEN "processed"
                       ELSE Val(result.args.data_path)))
        => /\ result.status = "ok"
           /\ result.value[1].nrows >= 1
           /\ result.value[1].has_target

\* C19: once a train_* call has succeeded, summary returns one row for each
\* model family trained so far and no other row (a family trained again
\* keeps one row), each with the rounded RMSE of the family's last result,
\* and the rows are in ascending order of that RMSE.
SummaryHasOneRowPerFamilyAscending ==
    (result.op = "summary")
        => /\ DOMAIN results # {} => result.status = "ok"
           /\ result.status = "ok"
                 => /\ Len(result.value) = Cardinality(DOMAIN results)
                    /\ {result.value[i].Model : i \in 1..Len(result.value)}
                          = DOMAIN results
                    /\ \A i \in 1..Len(result.value) :
                          result.value[i].RMSE
                             = Round2(results[result.value[i].Model].rmse)
                    /\ \A i \in 1..(Len(result.value) - 1) :
                          result.value[i].RMSE <= result.value[i + 1].RMSE

\* summary returned rows of different RMSE
SummaryOfUnequalModels ==
    /\ result.op = "summary"
    /\ result.status = "ok"
    /\ Len(result.value) >= 2
    /\ result.value[1].RMSE < result.value[Len(result.value)].RMSE

-----------------------------------------------------------------------------
(* Properties of the join through the translation table *)

\* C20: with a translation table, the merged table holds a row for a
\* boundary record B and a soil row S exactly when the translation table has
\* an entry whose boundary code is B's code and whose soil code is S's code.
\* Two codes are the same when neither is missing and they denote the same
\* value; so a boundary record without entry, or whose entries have no soil
\* code, has no merged row.
MergedRowsAreTranslatedPairs ==
    (/\ result.op = "load_data"
     /\ result.status = "ok"
     /\ ~IsNone(fs.link))
        => LET geo == Val(fs.geo)
               soil == Val(fs.soil).rows
               link == Val(fs.link)
               rows == Val(merged_data).rows
               SameCode(c, d) ==
                   c.t # "nan" /\ d.t # "nan" /\ Strip(c.s) = Strip(d.s)
               Translated(i, j) ==
                   \E e \in 1..Len(link) :
                      /\ SameCode(link[e].link_adm, geo[i].adm_cd2)
                      /\ SameCode(link[e].link_code, soil[j].code)
               Merged(i, j) ==
                   \E k \in 1..Len(rows) :
                      /\ rows[k].adm_cd2 = Val(gdf)[i].adm_cd2
                      /\ rows[k].sidonm = geo[i].sidonm
                      /\ rows[k].adm_nm = geo[i].adm_nm
                      /\ rows[k].code = Val(soil_data).rows[j].code
                      /\ rows[k].crop = soil[j].crop
                      /\ rows[k].best = Val(soil_data).rows[j].best
                      /\ rows[k].good = Val(soil_data).rows[j].good
           IN \A i \in 1..Len(geo), j \in 1..Len(soil) :
                 Merged(i, j) <=> Translated(i, j)

-----------------------------------------------------------------------------
(* Properties of the code conversion and of the order of tied rows *)

\* C21: load_data converts the boundary code, the soil code and both code
\* fields of the translation table to trimmed strings before it joins, and
\* two codes of joined columns that denote the same value (neither is
\* missing, and they differ at most by surrounding whitespace or by being a
\* number in one table and a text in the other) are equal after the
\* conversion.
SameValueCodesJoin ==
    (result.op = "load_data" /\ result.status = "ok")
        => LET geo == Val(fs.geo)
               soil == Val(fs.soil).rows
               g == Val(gdf)
               sd == Val(soil_data).rows
               SameCode(c, d) ==
                   c.t # "nan" /\ d.t # "nan" /\ Strip(c.s) = Strip(d.s)
           IN /\ \A i \in 1..Len(g) : g[i].adm_cd2 = Strip(g[i].adm_cd2)
              /\ \A j \in 1..Len(sd) : sd[j].code = Strip(sd[j].code)
              /\ IF IsNone(fs.link)
                 THEN \A i \in 1..Len(geo), j \in 1..Len(soil) :
                         SameCode(geo[i].adm_cd2, soil[j].code)
                            => g[i].adm_cd2 = sd[j].code
                 ELSE LET link == Val(fs.link)
                          lt == Val(link_table)
                      IN /\ \A e \in 1..Len(lt) :
                               /\ lt[e].link_adm = Strip(lt[e].link_adm)
                               /\ lt[e].link_code = Strip(lt[e].link_code)
                         /\ \A i \in 1..Len(geo), e \in 1..Len(link) :
                               SameCode(geo[i].adm_cd2, link[e].link_adm)
                                  => g[i].adm_cd2 = lt[e].link_adm
                         /\ \A e \in 1..Len(link), j \in 1..Len(soil) :
                               SameCode(link[e].link_code, soil[j].code)
                                  => lt[e].link_code = sd[j].code

\* C22: the score sort of search_by_crop and search_by_region is stable:
\* matching rows of equal score keep the order they have in the merged
\* table, so what a search returns is the deduplicated and truncated table
\* of the stable descending sort (rows without a score last, in their
\* original order).
ScoreSortIsStable ==
    (result.op \in {"search_by_crop", "search_by_region"} /\ result.status = "ok")
        => LET filtered ==
                   IF result.op = "search_by_crop"
                   THEN FilterByCrop(Val(merged_data).rows, result.args.crop_name)
                   ELSE FilterByRegion(Val(merged_data).rows, result.args.sido,
                                       result.args.dong)
               n == Len(filtered)
               Before(j, i) ==
                   IF IsNone(filtered[i].score)
                   THEN ~IsNone(filtered[j].score) \/ j < i
                   ELSE /\ ~IsNone(filtered[j].score)
                        /\ \/ Val(filtered[j].score) > Val(filtered[i].score)
                           \/ /\ Val(filtered[j].score) = Val(filtered[i].score)
                              /\ j < i
               Rank(i) == 1 + Cardinality({j \in 1..n : Before(j, i)})
               stable == [k \in 1..n |-> filtered[CHOOSE i \in 1..n : Rank(i) = k]]
           IN result.value =
                 HeadRows(IF result.op = "search_by_crop"
                          THEN DropDuplicatesByCode(stable)
                          ELSE DropDuplicatesByCrop(stable),
                          result.args.top_n)

\* C23: search_by_crop returns the best regions. Each returned row carries
\* the maximum score among the merged rows of its region code (법정동코드)
\* and crop, and every region that has a scored row for the crop and is not
\* returned has a maximum score less than or equal to the score of every
\* returned row. A row without a score carries no score.
SearchByCropReturnsBestRegions ==
    (result.op = "search_by_crop" /\ result.status = "ok")
        => LET rows == FilterByCrop(Val(merged_data).rows, result.args.crop_name)
               value == result.value
               returned == {value[k].code : k \in 1..Len(value)}
           IN /\ \A k \in 1..Len(value) :
                    /\ ~IsNone(value[k].score)
                    /\ \A i \in 1..Len(rows) :
                          (rows[i].code = value[k].code /\ ~IsNone(rows[i].score))
                             => Val(rows[i].score) <= Val(value[k].score)
              /\ \A i \in 1..Len(rows) :
                    (rows[i].code \notin returned /\ ~IsNone(rows[i].score))
                       => \A k \in 1..Len(value) :
                             /\ ~IsNone(value[k].score)
                             /\ Val(rows[i].score) <= Val(value[k].score)

-----------------------------------------------------------------------------
(* Properties of the merge as a step *)

\* C24: the merge leaves the tables it reads as they were loaded: after a
\* load_data that succeeded, the boundary table, the soil table and the
\* translation table of the visualizer hold the cells that were read from
\* the files (a text cell the same text, and no number turned into a text).
MergeLeavesLoadedTablesUnchanged ==
    (result.op = "load_data" /\ result.status = "ok")
        => LET AsLoaded(cell, now) == cell.t = "str" /\ cell.s = now
           IN /\ \A i \in 1..Len(Val(fs.geo)) :
                    AsLoaded(Val(fs.geo)[i].adm_cd2, Val(gdf)[i].adm_cd2)
              /\ \A j \in 1..Len(Val(fs.soil).rows) :
                    AsLoaded(Val(fs.soil).rows[j].code, Val(soil_data).rows[j].code)
              /\ ~IsNone(fs.link)
                    => \A e \in 1..Len(Val(fs.link)) :
                          /\ AsLoaded(Val(fs.link)[e].link_adm,
                                      Val(link_table)[e].link_adm)
                          /\ AsLoaded(Val(fs.link)[e].link_code,
                                      Val(link_table)[e].link_code)

-----------------------------------------------------------------------------
(* Properties of the training of CropPricePredictor *)

\* C25: train_all_models trains linear, ridge, lasso, polynomial and
\* random_forest in this order. When it returns, the results hold exactly
\* these five names and are what it returns. When the training of a family
\* raises, train_all_models raises: every family before that one has a
\* result and a trained model, and every family after it has the result and
\* the trained model it had before the call, or none.
TrainAllModelsInFixedOrder ==
    [][ (result'.op = "train_all_models")
        => IF result'.status = "ok"
           THEN /\ DOMAIN results' = ModelNames
                /\ trained_models' = ModelNames
                /\ result'.value = <<results'>>
           ELSE LET failed == result'.value[1]
                IN /\ failed \in 1..Len(MODELS)
                   /\ \A j \in 1..(failed - 1) :
                         /\ MODELS[j] \in DOMAIN results'
                         /\ MODELS[j] \in trained_models'
                   /\ \A j \in (failed + 1)..Len(MODELS) :
                         /\ MODELS[j] \in DOMAIN results' <=> MODELS[j] \in DOMAIN results
                         /\ MODELS[j] \in DOMAIN results
                               => results'[MODELS[j]] = results[MODELS[j]]
                         /\ MODELS[j] \in trained_models' <=> MODELS[j] \in trained_models
      ]_vars

\* train_all_models raised at the third family on a predictor that had no
\* result yet: the first two families have their results, the last two none
TrainAllModelsFailedMidway ==
    /\ result.op = "train_all_models"
    /\ result.status # "ok"
    /\ result.value = <<3>>
    /\ DOMAIN results = {MODELS[1], MODELS[2]}
    /\ MODELS[4] \notin trained_models

\* C26: in every state of a CropPricePredictor, every model name with a
\* stored result has a stored trained model, and both sets of names are
\* subsets of the five family names. (The converse fails: a model is stored
\* before it is evaluated, so a trained model can be left without result.)
ResultsHaveTrainedModels ==
    /\ DOMAIN results \subseteq trained_models
    /\ trained_models \subseteq ModelNames

\* a train call whose evaluation raised left a trained model without result
TrainedModelWithoutResult ==
    /\ result.op = "train"
    /\ result.msg = "evaluate"
    /\ result.args.model_name \in trained_models
    /\ result.args.model_name \notin DOMAIN results

====
